---- MODULE Spec2Model ----
(***************************************************************************)
(* Model of HashMap<KeyType, ValueType, Hash> (src/hash_map.h): separate   *)
(* chaining over one std::list (body_), with one list iterator (iters_)    *)
(* and one run length (sizes_) per bucket, and stop-the-world doubling.    *)
(*                                                                         *)
(* A list node is a record [id, first, second].  The id is the identity    *)
(* of the node object: std::list::insert creates a node with a new id,     *)
(* std::list::erase and std::list::clear destroy nodes.  A list iterator   *)
(* (and so a HashMap::iterator) is the id of the node it points at, or END *)
(* for body_.end().  An iterator is valid while a node with its id is      *)
(* linked in body_.  Ids are names only: between calls the nodes of body_   *)
(* are renamed 1..n in list order, and every iterator kept anywhere is     *)
(* renamed with them (an iterator of a destroyed node becomes DANGLING).   *)
(***************************************************************************)
EXTENDS Integers, Sequences, FiniteSets, TLC

\* ---------------------------------------------------------------- bounds
NumKeys == 3
NumVals == 2
MaxLen == 3
MaxAfterCopy == 1
MaxSource == 2

Keys == 1..NumKeys
Values == 1..NumVals

\* ------------------------------------------------------ program constants
RESIZE_FACTOR == 2
InitialCapacity == 1
\* ValueType() of operator[]
DefaultValue == 0
\* body_.end()
END == 0
\* at() leaving by throw std::out_of_range
OutOfRange == -1
\* an iterator whose node was destroyed
DANGLING == -1
\* behaviour left undefined by the language (dereferencing end() or a
\* destroyed node)
Undefined == -2

\* ------------------------------------------------- size_t / int arithmetic
\* A size_t is written as its 8 bytes, most significant first, so that
\* 64-bit values are computed exactly.
ByteBase == 256
Bytes8(b0, b1, b2, b3, b4, b5, b6, b7) == <<b0, b1, b2, b3, b4, b5, b6, b7>>

\* Hash()(k): the hash functor is a template parameter; this instance
\* collides for every capacity up to 4, and has values above INT_MAX and
\* above UINT_MAX.
hash(k) ==
    CASE k = 1 -> Bytes8(0, 0, 0, 0, 0, 0, 0, 4)
      [] k = 2 -> Bytes8(0, 0, 0, 0, 0, 0, 0, 8)
      [] k = 3 -> Bytes8(0, 0, 0, 0, 128, 0, 0, 1)
      [] k = 4 -> Bytes8(0, 0, 0, 1, 255, 255, 255, 253)
      [] OTHER -> Bytes8(0, 0, 0, 0, 0, 0, 0, k)

RECURSIVE ModFrom(_, _, _, _)
ModFrom(bytes, i, acc, cap) ==
    IF i > Len(bytes) THEN acc
    ELSE ModFrom(bytes, i + 1, (acc * ByteBase + bytes[i]) % cap, cap)

\* x % hash_map_capacity_ for a size_t x
SizeTMod(bytes, cap) == ModFrom(bytes, 1, 0, cap)

\* int h = hash(key); h % hash_map_capacity_ : the size_t is narrowed to a
\* 32-bit int (its low 4 bytes), and the int is converted back to size_t
\* for the unsigned %, which sign-extends it.
IntAsSizeT(bytes) ==
    LET ext == IF bytes[5] >= 128 THEN 255 ELSE 0
    IN  Bytes8(ext, ext, ext, ext, bytes[5], bytes[6], bytes[7], bytes[8])

\* ------------------------------------------------------------ std::list
\* position of the node an iterator points at; 0 for end() and for an
\* iterator whose node was destroyed
PosOf(body, it) ==
    IF \E i \in 1..Len(body) : body[i].id = it
    THEN CHOOSE i \in 1..Len(body) : body[i].id = it
    ELSE 0

\* body.insert(pos, node) with pos = Len(body) + 1 for end()
InsertAt(body, pos, node) ==
    SubSeq(body, 1, pos - 1) \o <<node>> \o SubSeq(body, pos, Len(body))

\* body.erase(it) at position pos
RemoveAt(body, pos) ==
    SubSeq(body, 1, pos - 1) \o SubSeq(body, pos + 1, Len(body))

\* the iterator body.erase returns: the element after the erased one
IterAfterErase(body, pos) ==
    IF pos < Len(body) THEN body[pos + 1].id ELSE END

\* ------------------------------------------------------- bucket scanning
\* for (int t = 0; t < sizes_[ind]; ++t, ++it) if (it->first == k) ...
\* p is the position of it, n the iterations left.  Result: the position
\* of the match, 0 when the loop ends without one, Undefined when the loop
\* dereferences end() or a destroyed node.
RECURSIVE ScanRun(_, _, _, _)
ScanRun(body, p, n, k) ==
    IF n <= 0 THEN 0
    ELSE IF p < 1 \/ p > Len(body) THEN Undefined
    ELSE IF body[p].first = k THEN p
    ELSE ScanRun(body, p + 1, n - 1, k)

\* the capacity never exceeds RESIZE_FACTOR times the largest size
Capacities == 1..(RESIZE_FACTOR * NumKeys)

\* hash(k) % hash_map_capacity_, tabulated
HashMod == [cap \in Capacities |-> [k \in Keys |-> SizeTMod(hash(k), cap)]]

\* int h = hash(k); h % hash_map_capacity_, tabulated
IntHashMod ==
    [cap \in Capacities |-> [k \in Keys |-> SizeTMod(IntAsSizeT(hash(k)), cap)]]

Bucket(m, k) == HashMod[m.hash_map_capacity_][k]

ScanBucket(m, k) ==
    LET ind == Bucket(m, k)
    IN  ScanRun(m.body_, PosOf(m.body_, m.iters_[ind]), m.sizes_[ind], k)

\* ------------------------------------------------------------ the object
\* HashMap(): capacity 1, one bucket {end(), 0}, empty list
EmptyMap ==
    [ body_              |-> <<>>,
      iters_             |-> [i \in 0..(InitialCapacity - 1) |-> END],
      sizes_             |-> [i \in 0..(InitialCapacity - 1) |-> 0],
      hash_map_capacity_ |-> InitialCapacity,
      hash_map_size_     |-> 0,
      next_id            |-> 1,
      ub                 |-> FALSE ]

\* PrependToBucket with body_.push_back(node) for body_.insert(iters_[ind], node)
PrependToBucket_push_back(m, k, v) ==
    LET ind  == Bucket(m, k)
        node == [id |-> m.next_id, first |-> k, second |-> v]
    IN  [m EXCEPT !.sizes_[ind] = @ + 1,
                  !.hash_map_size_ = @ + 1,
                  !.body_ = InsertAt(@, Len(@) + 1, node),
                  !.iters_[ind] = m.next_id,
                  !.next_id = @ + 1]

\* the tail of operator[] and insert: a new node before iters_[ind]
PrependToBucket(m, k, v) ==
    LET ind  == Bucket(m, k)
        at   == m.iters_[ind]
        pos  == IF at = END THEN Len(m.body_) + 1 ELSE PosOf(m.body_, at)
        node == [id |-> m.next_id, first |-> k, second |-> v]
    IN  IF pos = 0
        THEN [m EXCEPT !.ub = TRUE]
        ELSE [m EXCEPT !.sizes_[ind] = @ + 1,
                       !.hash_map_size_ = @ + 1,
                       !.body_ = InsertAt(@, pos, node),
                       !.iters_[ind] = m.next_id,
                       !.next_id = @ + 1]

\* it->second = v through the reference operator[] returned
AssignAt(m, it, v) ==
    LET pos == PosOf(m.body_, it)
    IN  IF pos = 0 THEN [m EXCEPT !.ub = TRUE]
        ELSE [m EXCEPT !.body_[pos].second = v]

RECURSIVE enlarge_hashtable_if_needed(_)
RECURSIVE Subscript(_, _)
RECURSIVE Reinsert(_, _, _)

\* Subscript without the scan of the bucket: always a new node
Subscript_no_scan(m0, k) ==
    LET m  == enlarge_hashtable_if_needed(m0)
        m2 == PrependToBucket(m, k, DefaultValue)
    IN  [m |-> m2, it |-> m2.iters_[Bucket(m2, k)]]

\* operator[](k): the map after the call, and the iterator of the entry
\* whose value is returned by reference
Subscript(m0, k) ==
    LET m == enlarge_hashtable_if_needed(m0)
        p == ScanBucket(m, k)
    IN  IF p = Undefined THEN [m |-> [m EXCEPT !.ub = TRUE], it |-> END]
        ELSE IF p > 0 THEN [m |-> m, it |-> m.body_[p].id]
        ELSE LET m2 == PrependToBucket(m, k, DefaultValue)
             IN  [m |-> m2, it |-> m2.iters_[Bucket(m2, k)]]

\* Reinsert with (*this)[p.first]; for (*this)[p.first] = p.second;
Reinsert_default(m, old, i) ==
    IF i > Len(old) THEN m
    ELSE Reinsert(Subscript(m, old[i].first).m, old, i + 1)

\* for (auto p : old_body_) (*this)[p.first] = p.second;
Reinsert(m, old, i) ==
    IF i > Len(old) THEN m
    ELSE LET r == Subscript(m, old[i].first)
         IN  Reinsert(AssignAt(r.m, r.it, old[i].second), old, i + 1)

\* enlarge_hashtable_if_needed with <= for < in its test
enlarge_when_above(m) ==
    IF m.hash_map_size_ <= m.hash_map_capacity_ THEN m
    ELSE LET cap == m.hash_map_capacity_ * RESIZE_FACTOR
             fresh == [m EXCEPT !.hash_map_capacity_ = cap,
                                !.body_ = <<>>,
                                !.iters_ = [i \in 0..(cap - 1) |-> END],
                                !.sizes_ = [i \in 0..(cap - 1) |-> 0],
                                !.hash_map_size_ = 0]
         IN  Reinsert(fresh, m.body_, 1)

enlarge_hashtable_if_needed(m) ==
    IF m.hash_map_size_ < m.hash_map_capacity_ THEN m
    ELSE LET cap == m.hash_map_capacity_ * RESIZE_FACTOR
             fresh == [m EXCEPT !.hash_map_capacity_ = cap,
                                !.body_ = <<>>,
                                !.iters_ = [i \in 0..(cap - 1) |-> END],
                                !.sizes_ = [i \in 0..(cap - 1) |-> 0],
                                !.hash_map_size_ = 0]
         IN  Reinsert(fresh, m.body_, 1)

\* m[k] = v
IndexAssign(m, k, v) ==
    LET r == Subscript(m, k) IN AssignAt(r.m, r.it, v)

\* the value read through m[k]
IndexValue(m, k) ==
    LET r == Subscript(m, k)
        pos == PosOf(r.m.body_, r.it)
    IN  IF pos = 0 THEN Undefined ELSE r.m.body_[pos].second

\* insert that assigns p.second to the entry it finds
insert_overwrite(m0, k, v) ==
    LET m == enlarge_hashtable_if_needed(m0)
        p == ScanBucket(m, k)
    IN  IF p = Undefined THEN [m EXCEPT !.ub = TRUE]
        ELSE IF p > 0 THEN [m EXCEPT !.body_[p].second = v]
        ELSE PrependToBucket(m, k, v)

\* insert({k, v})
insert(m0, k, v) ==
    LET m == enlarge_hashtable_if_needed(m0)
        p == ScanBucket(m, k)
    IN  IF p = Undefined THEN [m EXCEPT !.ub = TRUE]
        ELSE IF p > 0 THEN m
        ELSE PrependToBucket(m, k, v)

\* erase with body_.erase(iters_[ind]) in both branches of if (t == 0)
erase_first_of_run(m0, k) ==
    LET m   == enlarge_hashtable_if_needed(m0)
        ind == Bucket(m, k)
        p   == ScanBucket(m, k)
    IN  IF p = Undefined THEN [m EXCEPT !.ub = TRUE]
        ELSE IF p = 0 THEN m
        ELSE LET q    == PosOf(m.body_, m.iters_[ind])
                 left == m.sizes_[ind] - 1
                 nxt  == IterAfterErase(m.body_, q)
             IN  [m EXCEPT !.body_ = RemoveAt(@, q),
                           !.iters_[ind] = IF left = 0 THEN END ELSE nxt,
                           !.sizes_[ind] = left,
                           !.hash_map_size_ = @ - 1]

\* erase without if (--sizes_[ind] == 0) iters_[ind] = body_.end();
erase_no_reset(m0, k) ==
    LET m   == enlarge_hashtable_if_needed(m0)
        ind == Bucket(m, k)
        p   == ScanBucket(m, k)
    IN  IF p = Undefined THEN [m EXCEPT !.ub = TRUE]
        ELSE IF p = 0 THEN m
        ELSE LET first == (p = PosOf(m.body_, m.iters_[ind]))
                 nxt   == IterAfterErase(m.body_, p)
             IN  [m EXCEPT !.body_ = RemoveAt(@, p),
                           !.iters_[ind] = IF first THEN nxt ELSE @,
                           !.sizes_[ind] = @ - 1,
                           !.hash_map_size_ = @ - 1]

\* erase without hash_map_size_--
erase_keep_size(m0, k) ==
    LET m   == enlarge_hashtable_if_needed(m0)
        ind == Bucket(m, k)
        p   == ScanBucket(m, k)
    IN  IF p = Undefined THEN [m EXCEPT !.ub = TRUE]
        ELSE IF p = 0 THEN m
        ELSE LET first == (p = PosOf(m.body_, m.iters_[ind]))
                 left  == m.sizes_[ind] - 1
                 nxt   == IterAfterErase(m.body_, p)
             IN  [m EXCEPT !.body_ = RemoveAt(@, p),
                           !.iters_[ind] = IF left = 0 THEN END
                                           ELSE IF first THEN nxt
                                           ELSE @,
                           !.sizes_[ind] = left]

\* erase(k)
erase(m0, k) ==
    LET m   == enlarge_hashtable_if_needed(m0)
        ind == Bucket(m, k)
        p   == ScanBucket(m, k)
    IN  IF p = Undefined THEN [m EXCEPT !.ub = TRUE]
        ELSE IF p = 0 THEN m
        ELSE LET first == (p = PosOf(m.body_, m.iters_[ind]))
                 left  == m.sizes_[ind] - 1
                 nxt   == IterAfterErase(m.body_, p)
             IN  [m EXCEPT !.body_ = RemoveAt(@, p),
                           !.iters_[ind] = IF left = 0 THEN END
                                           ELSE IF first THEN nxt
                                           ELSE @,
                           !.sizes_[ind] = left,
                           !.hash_map_size_ = @ - 1]

\* find returning the start of the bucket for the entry it found
find_bucket_start(m, k) ==
    LET p == ScanBucket(m, k)
    IN  IF p = Undefined THEN Undefined
        ELSE IF p > 0 THEN m.iters_[Bucket(m, k)]
        ELSE END

\* find(k): the iterator returned
find(m, k) ==
    LET p == ScanBucket(m, k)
    IN  IF p = Undefined THEN Undefined
        ELSE IF p > 0 THEN m.body_[p].id
        ELSE END

\* at returning ValueType() for the throw
at_default(m, k) ==
    LET p == ScanBucket(m, k)
    IN  IF p = Undefined THEN Undefined
        ELSE IF p > 0 THEN m.body_[p].second
        ELSE DefaultValue

\* at(k): the value returned, or OutOfRange for the throw
at(m, k) ==
    LET p == ScanBucket(m, k)
    IN  IF p = Undefined THEN Undefined
        ELSE IF p > 0 THEN m.body_[p].second
        ELSE OutOfRange

RECURSIVE ResetBuckets(_, _, _)

\* ResetBuckets without iters_[h % hash_map_capacity_] = body_.end()
ResetBuckets_sizes_only(m, hashes_to_clear, i) ==
    IF i > Len(hashes_to_clear) THEN m
    ELSE LET ind == IntHashMod[m.hash_map_capacity_][hashes_to_clear[i]]
         IN  ResetBuckets([m EXCEPT !.sizes_[ind] = 0], hashes_to_clear, i + 1)

\* clear(); hashes_to_clear holds the keys whose int hashes the code holds
ResetBuckets(m, hashes_to_clear, i) ==
    IF i > Len(hashes_to_clear) THEN m
    ELSE LET ind == IntHashMod[m.hash_map_capacity_][hashes_to_clear[i]]
         IN  ResetBuckets([m EXCEPT !.sizes_[ind] = 0, !.iters_[ind] = END],
                          hashes_to_clear, i + 1)

\* clear without hash_map_size_ = 0
clear_keep_size(m) ==
    LET hashes_to_clear == [i \in 1..Len(m.body_) |-> m.body_[i].first]
        emptied == [m EXCEPT !.body_ = <<>>]
    IN  ResetBuckets(emptied, hashes_to_clear, 1)

\* clear with hash_map_capacity_ back at its initial value
clear_reset_capacity(m) ==
    [EmptyMap EXCEPT !.ub = m.ub]

clear(m) ==
    LET hashes_to_clear == [i \in 1..Len(m.body_) |-> m.body_[i].first]
        emptied == [m EXCEPT !.body_ = <<>>]
    IN  [ResetBuckets(emptied, hashes_to_clear, 1) EXCEPT !.hash_map_size_ = 0]

\* for (auto p : L) (*this)[p.first] = p.second;  with L a sequence of
\* pairs <<key, value>>: the loop of the copy constructor, of operator= and
\* of the two constructors from pairs
RECURSIVE AssignAll(_, _, _)
AssignAll(m, L, i) ==
    IF i > Len(L) THEN m
    ELSE AssignAll(IndexAssign(m, L[i][1], L[i][2]), L, i + 1)

\* FromList with insert(p) for (*this)[p.first] = p.second
RECURSIVE InsertAll(_, _, _)
InsertAll(m, L, i) ==
    IF i > Len(L) THEN m
    ELSE InsertAll(insert(m, L[i][1], L[i][2]), L, i + 1)

FromList_insert(L) == InsertAll(EmptyMap, L, 1)

\* HashMap(first, last) and HashMap(std::initializer_list)
FromList(L) == AssignAll(EmptyMap, L, 1)

\* size(), empty()
size(m) == m.hash_map_size_
empty(m) == m.body_ = <<>>

\* for (it = begin(); it != end(); ++it) collect *it
Iterate(m) == [i \in 1..Len(m.body_) |-> <<m.body_[i].first, m.body_[i].second>>]

\* the copy constructor without its first (*this)[p.first] = p.second
HashMapCopy_skip_first(other) == AssignAll(EmptyMap, Iterate(other), 2)

\* HashMap(const HashMap& other)
HashMapCopy(other) == AssignAll(EmptyMap, Iterate(other), 1)

\* operator= without if (&other == this) return *this; : on a = a, other
\* is the object clear() has just emptied
assign_no_self_check(m, other, same) ==
    AssignAll(clear(m), Iterate(IF same THEN clear(m) ELSE other), 1)

\* operator=(other); same tells whether &other == this
assign(m, other, same) ==
    IF same THEN m
    ELSE AssignAll(clear(m), Iterate(other), 1)

\* ------------------------------------- the variant of fixed HASH_MAP_SIZE
\* static const size_t HASH_MAP_SIZE = 1e6
HASH_MAP_SIZE == 1000000

\* hash(k) % HASH_MAP_SIZE
FixedIndex == [k \in Keys |-> SizeTMod(hash(k), HASH_MAP_SIZE)]

\* int h = hash(k); h % HASH_MAP_SIZE
FixedIntIndex == [k \in Keys |-> SizeTMod(IntAsSizeT(hash(k)), HASH_MAP_SIZE)]

\* the elements of iters and sizes that some call can read or write; every
\* other element stays {body.end(), 0}
FixedBuckets ==
    {FixedIndex[k] : k \in Keys} \cup {FixedIntIndex[k] : k \in Keys}

\* HashMap()
FixedMap ==
    [ body  |-> <<>>,
      iters |-> [b \in FixedBuckets |-> END],
      sizes |-> [b \in FixedBuckets |-> 0],
      ub    |-> FALSE ]

fixed_scan(m, k) ==
    LET ind == FixedIndex[k]
    IN  ScanRun(m.body, PosOf(m.body, m.iters[ind]), m.sizes[ind], k)

\* sizes[ind]++; iters[ind] = body.insert(iters[ind], {k, v});
fixed_place(m, k, v) ==
    LET ind  == FixedIndex[k]
        from == m.iters[ind]
        pos  == IF from = END THEN Len(m.body) + 1 ELSE PosOf(m.body, from)
        node == [id |-> Len(m.body) + 1, first |-> k, second |-> v]
    IN  IF pos = 0
        THEN [m EXCEPT !.ub = TRUE]
        ELSE [m EXCEPT !.sizes[ind] = @ + 1,
                       !.body = InsertAt(@, pos, node),
                       !.iters[ind] = node.id]

\* operator[](k) = v
fixed_index_assign(m, k, v) ==
    LET p == fixed_scan(m, k)
    IN  IF p = Undefined THEN [m EXCEPT !.ub = TRUE]
        ELSE IF p > 0 THEN [m EXCEPT !.body[p].second = v]
        ELSE LET m2 == fixed_place(m, k, DefaultValue)
                 q  == PosOf(m2.body, m2.iters[FixedIndex[k]])
             IN  IF m2.ub THEN m2 ELSE [m2 EXCEPT !.body[q].second = v]

fixed_insert(m, k, v) ==
    LET p == fixed_scan(m, k)
    IN  IF p = Undefined THEN [m EXCEPT !.ub = TRUE]
        ELSE IF p > 0 THEN m
        ELSE fixed_place(m, k, v)

fixed_erase(m, k) ==
    LET ind == FixedIndex[k]
        p   == fixed_scan(m, k)
    IN  IF p = Undefined THEN [m EXCEPT !.ub = TRUE]
        ELSE IF p = 0 THEN m
        ELSE LET first == (p = PosOf(m.body, m.iters[ind]))
                 left  == m.sizes[ind] - 1
                 nxt   == IterAfterErase(m.body, p)
             IN  [m EXCEPT !.body = RemoveAt(@, p),
                           !.iters[ind] = IF left = 0 THEN END
                                          ELSE IF first THEN nxt
                                          ELSE @,
                           !.sizes[ind] = left]

\* find(k): the iterator returned
fixed_find(m, k) ==
    LET p == fixed_scan(m, k)
    IN  IF p = Undefined THEN Undefined
        ELSE IF p > 0 THEN m.body[p].id
        ELSE END

\* for (int h : hashes_to_clear) { sizes[h % HASH_MAP_SIZE] = 0;
\*                                 iters[h % HASH_MAP_SIZE] = body.end(); }
RECURSIVE fixed_reset(_, _, _)
fixed_reset(m, hashes_to_clear, i) ==
    IF i > Len(hashes_to_clear) THEN m
    ELSE LET ind == FixedIntIndex[hashes_to_clear[i]]
         IN  fixed_reset([m EXCEPT !.sizes[ind] = 0, !.iters[ind] = END],
                         hashes_to_clear, i + 1)

\* clear(); hashes_to_clear holds the keys whose int hashes the code holds
fixed_clear(m) ==
    LET hashes_to_clear == [i \in 1..Len(m.body) |-> m.body[i].first]
        destroyed == [b \in FixedBuckets |->
                         IF m.iters[b] = END THEN END ELSE DANGLING]
    IN  fixed_reset([m EXCEPT !.body = <<>>, !.iters = destroyed],
                    hashes_to_clear, 1)

\* ------------------------------------------------------------- the state
VARIABLES
    body_,               \* std::list of nodes [id, first, second]
    iters_,              \* bucket -> iterator of the first node of its run
    sizes_,              \* bucket -> length of its run
    hash_map_capacity_,
    hash_map_size_,
    ub,                  \* some call had undefined behaviour
    held,                \* an iterator the caller keeps from an earlier find
    op,                  \* the last call: name, arguments, result, and
                         \* the number of entries it found
    live,                \* history: key -> value an abstract map would hold
    only_inserts,        \* history: every mutating call so far was an
                         \* insert of a key never inserted before
    copy,                \* a second HashMap object, NoCopy before it exists
    calls,               \* the number of calls made since copy exists
    input,               \* the pairs a constructor is given
    fixed,               \* an object of the variant of fixed HASH_MAP_SIZE
    order                \* history: the live keys, in the order in which
                         \* their entries were created (Untracked where
                         \* the specification keeps no such history)

obj == <<body_, iters_, sizes_, hash_map_capacity_, hash_map_size_, ub>>
vars == <<body_, iters_, sizes_, hash_map_capacity_, hash_map_size_, ub,
          held, op, live, only_inserts, copy, calls, input, fixed,
          order>>

\* the object as one record
State ==
    [ body_              |-> body_,
      iters_             |-> iters_,
      sizes_             |-> sizes_,
      hash_map_capacity_ |-> hash_map_capacity_,
      hash_map_size_     |-> hash_map_size_,
      next_id            |-> Len(body_) + 1,
      ub                 |-> ub ]

NoCopy == [hash_map_capacity_ |-> 0]

\* the name of iterator it once the nodes of body are renamed in list order
Renamed(body, it) ==
    IF it = END THEN END
    ELSE IF PosOf(body, it) = 0 THEN DANGLING
    ELSE PosOf(body, it)

\* object m with its nodes renamed in list order
Normal(m) ==
    [m EXCEPT !.body_ = [i \in 1..Len(m.body_) |-> [m.body_[i] EXCEPT !.id = i]],
              !.iters_ = [i \in DOMAIN m.iters_ |-> Renamed(m.body_, m.iters_[i])],
              !.next_id = Len(m.body_) + 1]

\* the object after a call that left it as m
Becomes(m) ==
    /\ body_' = Normal(m).body_
    /\ iters_' = Normal(m).iters_
    /\ sizes_' = m.sizes_
    /\ hash_map_capacity_' = m.hash_map_capacity_
    /\ hash_map_size_' = m.hash_map_size_
    /\ ub' = m.ub
    /\ held' = Renamed(m.body_, held)

\* no entry for the key: what at() reports by its throw
Absent == OutOfRange
NoOp == [name |-> "construct", k |-> 0, v |-> 0, other |-> <<>>, ret |-> 0,
         present |-> FALSE, grew |-> FALSE, before |-> 0]

\* a call on one of two objects counts against MaxAfterCopy
Counted ==
    /\ copy # NoCopy => calls < MaxAfterCopy
    /\ calls' = IF copy = NoCopy THEN calls ELSE calls + 1

CalledWith(name, k, v, other, ret) ==
    op' = [name |-> name, k |-> k, v |-> v, other |-> other, ret |-> ret,
           present |-> (k \in Keys /\ find(State, k) # END),
           grew |-> (hash_map_capacity_' # hash_map_capacity_),
           before |-> Len(body_)]

Called(name, k, v, ret) == CalledWith(name, k, v, <<>>, ret)

Untracked == <<0>>
\* order once an entry for k is created, if there is none
Created(k) ==
    IF order # Untracked /\ live[k] = Absent THEN Append(order, k) ELSE order
\* order once the entry of k is removed
Removed(k) == SelectSeq(order, LAMBDA j : j # k)
\* order once every entry is removed
Emptied == IF order = Untracked THEN order ELSE <<>>

InitObject ==
    /\ body_ = EmptyMap.body_
    /\ iters_ = EmptyMap.iters_
    /\ sizes_ = EmptyMap.sizes_
    /\ hash_map_capacity_ = EmptyMap.hash_map_capacity_
    /\ hash_map_size_ = EmptyMap.hash_map_size_
    /\ ub = EmptyMap.ub
    /\ held = END
    /\ op = NoOp
    /\ live = [k \in Keys |-> Absent]
    /\ only_inserts = TRUE
    /\ copy = NoCopy
    /\ calls = 0
    /\ fixed = FixedMap

Init == InitObject /\ order = Untracked /\ input = <<>>

\* ---------------------------------------------------------------- calls
Insert(k, v) ==
    /\ \E m \in {insert(State, k, v)} : Becomes(m)
    /\ Called("insert", k, v, 0)
    /\ live' = IF live[k] = Absent THEN [live EXCEPT ![k] = v] ELSE live
    /\ only_inserts' = (only_inserts /\ live[k] = Absent)
    /\ order' = Created(k)
    /\ Counted
    /\ UNCHANGED <<copy, input, fixed>>

IndexWrite(k, v) ==
    /\ \E m \in {IndexAssign(State, k, v)} : Becomes(m)
    /\ Called("index_write", k, v, 0)
    /\ live' = [live EXCEPT ![k] = v]
    /\ only_inserts' = FALSE
    /\ order' = Created(k)
    /\ Counted
    /\ UNCHANGED <<copy, input, fixed>>

IndexRead(k) ==
    /\ \E m \in {Subscript(State, k).m} : Becomes(m)
    /\ Called("index_read", k, 0, IndexValue(State, k))
    /\ live' = IF live[k] = Absent THEN [live EXCEPT ![k] = DefaultValue] ELSE live
    /\ only_inserts' = (only_inserts /\ live[k] # Absent)
    /\ order' = Created(k)
    /\ Counted
    /\ UNCHANGED <<copy, input, fixed>>

Erase(k) ==
    /\ \E m \in {erase(State, k)} : Becomes(m)
    /\ Called("erase", k, 0, 0)
    /\ live' = [live EXCEPT ![k] = Absent]
    /\ only_inserts' = FALSE
    /\ order' = Removed(k)
    /\ Counted
    /\ UNCHANGED <<copy, input, fixed>>

Find(k) ==
    /\ UNCHANGED <<obj, held, live, only_inserts, order, copy, calls, input, fixed>>
    /\ Called("find", k, 0, find(State, k))

\* it = find(k), and the caller keeps it
FindAndHold(k) ==
    /\ UNCHANGED <<obj, live, only_inserts, order, copy, calls, input, fixed>>
    /\ held' = find(State, k)
    /\ Called("find", k, 0, find(State, k))

At(k) ==
    /\ UNCHANGED <<obj, held, live, only_inserts, order, copy, calls, input, fixed>>
    /\ Called("at", k, 0, at(State, k))

Clear ==
    /\ \E m \in {clear(State)} : Becomes(m)
    /\ Called("clear", 0, 0, 0)
    /\ live' = [k \in Keys |-> Absent]
    /\ only_inserts' = FALSE
    /\ order' = Emptied
    /\ Counted
    /\ UNCHANGED <<copy, input, fixed>>

Next ==
    \/ \E k \in Keys, v \in Values : Insert(k, v)
    \/ \E k \in Keys, v \in Values : IndexWrite(k, v)
    \/ \E k \in Keys : IndexRead(k)
    \/ \E k \in Keys : Erase(k)
    \/ \E k \in Keys : Find(k)
    \/ \E k \in Keys : At(k)
    \/ Clear

Spec == Init /\ [][Next]_vars

\* the same calls, by a caller that keeps iterators
NextHandles ==
    \/ \E k \in Keys, v \in Values : Insert(k, v)
    \/ \E k \in Keys : Erase(k)
    \/ \E k \in Keys : FindAndHold(k)

SpecHandles == Init /\ [][NextHandles]_vars

\* the sequences of at most MaxLen pairs a constructor can be given
InputPairs == Keys \X Values
InputLists == UNION {[1..n -> InputPairs] : n \in 0..MaxLen}

\* the abstract map after the loop (*this)[p.first] = p.second over L
RECURSIVE LastWins(_, _, _)
LastWins(f, L, i) ==
    IF i > Len(L) THEN f
    ELSE LastWins([f EXCEPT ![L[i][1]] = L[i][2]], L, i + 1)

\* operator= on an object constructed from pairs, from another one
SourceLists == UNION {[1..n -> InputPairs] : n \in 0..MaxSource}

\* the state after HashMap m{L}
InitAssign ==
    \E L \in InputLists :
        LET m == Normal(FromList(L))
        IN  /\ body_ = m.body_
            /\ iters_ = m.iters_
            /\ sizes_ = m.sizes_
            /\ hash_map_capacity_ = m.hash_map_capacity_
            /\ hash_map_size_ = m.hash_map_size_
            /\ ub = m.ub
            /\ held = END
            /\ op = NoOp
            /\ live = LastWins([k \in Keys |-> Absent], L, 1)
            /\ only_inserts = FALSE
            /\ copy = NoCopy
            /\ calls = 0
            /\ order = Untracked
            /\ input = <<>>
            /\ fixed = FixedMap

\* *this = HashMap(L)
AssignFrom(L) ==
    /\ \E m \in {assign(State, FromList(L), FALSE)} : Becomes(m)
    /\ CalledWith("assign", 0, 0, L, 0)
    /\ live' = LastWins([k \in Keys |-> Absent], L, 1)
    /\ only_inserts' = FALSE
    /\ UNCHANGED <<copy, calls, input, fixed, order>>

\* *this = *this
SelfAssign ==
    /\ \E m \in {assign(State, State, TRUE)} : Becomes(m)
    /\ Called("self_assign", 0, 0, 0)
    /\ UNCHANGED <<live, only_inserts, copy, calls, input, fixed, order>>

NextAssign ==
    \/ \E L \in SourceLists : AssignFrom(L)
    \/ SelfAssign
    \/ \E k \in Keys : Erase(k)
    \/ Clear

SpecAssign == InitAssign /\ [][NextAssign]_vars

\* two objects: this one and a copy of it, each then used on its own
CopyCalled(name, k, v) ==
    op' = [name |-> name, k |-> k, v |-> v, other |-> <<>>, ret |-> 0,
           present |-> (k \in Keys /\ copy # NoCopy /\ find(copy, k) # END),
           grew |-> (copy'.hash_map_capacity_ # copy.hash_map_capacity_),
           before |-> IF copy = NoCopy THEN 0 ELSE Len(copy.body_)]

\* HashMap copy(*this)
CopyConstruct ==
    /\ copy = NoCopy
    /\ copy' = Normal(HashMapCopy(State))
    /\ CopyCalled("copy_construct", 0, 0)
    /\ UNCHANGED <<obj, held, live, only_inserts, order, calls, input, fixed>>

\* copy = *this: copy is a copy of this object again
CopyAssign ==
    /\ copy # NoCopy
    /\ copy' = Normal(assign(copy, State, FALSE))
    /\ CopyCalled("copy_assign", 0, 0)
    /\ calls' = 0
    /\ UNCHANGED <<obj, held, live, only_inserts, order, input, fixed>>

CopyInsert(k, v) ==
    /\ copy # NoCopy
    /\ copy' = Normal(insert(copy, k, v))
    /\ CopyCalled("copy_insert", k, v)
    /\ Counted
    /\ UNCHANGED <<obj, held, live, only_inserts, order, input, fixed>>

CopyIndexWrite(k, v) ==
    /\ copy # NoCopy
    /\ copy' = Normal(IndexAssign(copy, k, v))
    /\ CopyCalled("copy_index_write", k, v)
    /\ Counted
    /\ UNCHANGED <<obj, held, live, only_inserts, order, input, fixed>>

CopyErase(k) ==
    /\ copy # NoCopy
    /\ copy' = Normal(erase(copy, k))
    /\ CopyCalled("copy_erase", k, 0)
    /\ Counted
    /\ UNCHANGED <<obj, held, live, only_inserts, order, input, fixed>>

CopyClear ==
    /\ copy # NoCopy
    /\ copy' = Normal(clear(copy))
    /\ CopyCalled("copy_clear", 0, 0)
    /\ Counted
    /\ UNCHANGED <<obj, held, live, only_inserts, order, input, fixed>>

\* this object is constructed from pairs and copied; then come the calls
NextCopy ==
    \/ CopyConstruct
    \/ CopyAssign
    \/ \E k \in Keys, v \in Values : CopyInsert(k, v)
    \/ \E k \in Keys, v \in Values : CopyIndexWrite(k, v)
    \/ \E k \in Keys : CopyErase(k)
    \/ CopyClear
    \/ copy # NoCopy /\ \E k \in Keys, v \in Values : Insert(k, v)
    \/ copy # NoCopy /\ \E k \in Keys, v \in Values : IndexWrite(k, v)
    \/ copy # NoCopy /\ \E k \in Keys : Erase(k)
    \/ copy # NoCopy /\ Clear

SpecCopy == InitAssign /\ [][NextCopy]_vars

\* the constructors from pairs
InitCtor == InitObject /\ order = Untracked /\ input \in InputLists

Constructed(name) ==
    /\ op.name = "construct"
    /\ \E m \in {FromList(input)} : Becomes(m)
    /\ Called(name, 0, 0, 0)
    /\ live' = LastWins(live, input, 1)
    /\ only_inserts' = FALSE
    /\ UNCHANGED <<copy, calls, input, fixed, order>>

\* HashMap m(first, last)
ConstructRange == Constructed("construct_range")

\* HashMap m{L}
ConstructInitializerList == Constructed("construct_list")

NextCtor ==
    \/ ConstructRange
    \/ ConstructInitializerList

SpecCtor == InitCtor /\ [][NextCtor]_vars

\* insert, index and erase, with the history of the order of creation
InitOrder == InitObject /\ order = <<>> /\ input = <<>>

NextOrder ==
    \/ \E k \in Keys, v \in Values : Insert(k, v)
    \/ \E k \in Keys, v \in Values : IndexWrite(k, v)
    \/ \E k \in Keys : Erase(k)

SpecOrder == InitOrder /\ [][NextOrder]_vars

\* the variant of fixed HASH_MAP_SIZE, with its nodes renamed in list order
FixedBecomes(m) ==
    fixed' = [m EXCEPT
                 !.body = [i \in 1..Len(m.body) |-> [m.body[i] EXCEPT !.id = i]],
                 !.iters = [b \in FixedBuckets |-> Renamed(m.body, m.iters[b])]]

FixedCalled(name, k, v, ret) ==
    /\ ~fixed.ub
    /\ op' = [name |-> name, k |-> k, v |-> v, other |-> <<>>, ret |-> ret,
              present |-> (k \in Keys /\ fixed_scan(fixed, k) > 0),
              grew |-> FALSE,
              before |-> Len(fixed.body)]
    /\ UNCHANGED <<obj, held, live, only_inserts, copy, calls, input, order>>

FixedInsert(k, v) ==
    /\ FixedBecomes(fixed_insert(fixed, k, v))
    /\ FixedCalled("fixed_insert", k, v, 0)

FixedIndexWrite(k, v) ==
    /\ FixedBecomes(fixed_index_assign(fixed, k, v))
    /\ FixedCalled("fixed_index_write", k, v, 0)

FixedErase(k) ==
    /\ FixedBecomes(fixed_erase(fixed, k))
    /\ FixedCalled("fixed_erase", k, 0, 0)

FixedFind(k) ==
    /\ k \in Keys
    /\ fixed' = [fixed EXCEPT !.ub = (fixed_find(fixed, k) = Undefined)]
    /\ FixedCalled("fixed_find", k, 0, fixed_find(fixed, k))

FixedClear ==
    /\ FixedBecomes(fixed_clear(fixed))
    /\ FixedCalled("fixed_clear", 0, 0, 0)

NextFixed ==
    \/ \E k \in Keys, v \in Values : FixedInsert(k, v)
    \/ \E k \in Keys, v \in Values : FixedIndexWrite(k, v)
    \/ \E k \in Keys : FixedErase(k)
    \/ \E k \in Keys : FixedFind(k)
    \/ FixedClear

SpecFixed == Init /\ [][NextFixed]_vars

\* ------------------------------------------------------------ observers
KeysOf(m) == {m.body_[i].first : i \in 1..Len(m.body_)}
\* the value at(k) reports, Absent for the throw
Lookup(m, k) == IF at(m, k) = OutOfRange THEN Absent ELSE at(m, k)
Contents(m) == [k \in Keys |-> Lookup(m, k)]

TypeOK ==
    /\ hash_map_capacity_ \in Capacities
    /\ hash_map_size_ \in 0..NumKeys
    /\ DOMAIN iters_ = 0..(hash_map_capacity_ - 1)
    /\ DOMAIN sizes_ = 0..(hash_map_capacity_ - 1)
NoUB == ~ub

\* every entry of the list, as iteration from begin() to end() yields them
Pairs(m) == {Iterate(m)[i] : i \in 1..Len(Iterate(m))}
LivePairs == {<<k, live[k]>> : k \in {j \in Keys : live[j] # Absent}}
Present(m, k) == find(m, k) # END
Mutating == {"insert", "index_write", "index_read", "erase"}

\* ---------------------------------------------------------------- claims

\* C1: after any sequence of insert(k, v) calls with pairwise distinct keys
\* on an empty map, of any length and across growth events, at(k) and
\* index(k) both return the v inserted with k, for every inserted k.
C1_RoundTrip ==
    only_inserts =>
        \A k \in Keys : live[k] # Absent =>
            /\ at(State, k) = live[k]
            /\ IndexValue(State, k) = live[k]

\* the last of NumKeys inserts of distinct keys rebuilt the table a second
\* time
C1_Witness ==
    /\ only_inserts
    /\ op.name = "insert"
    /\ op.grew
    /\ hash_map_size_ >= 3
    /\ hash_map_capacity_ >= 4

\* C2: the rebuild of enlarge_hashtable_if_needed keeps the set of keys,
\* the value of every key and size(); a call that only rebuilds (erase of
\* an absent key, insert of a present key) leaves the contents as they were.
C2_GrowthPreservesContents ==
    [][(hash_map_size_ >= hash_map_capacity_ /\ op'.name \in Mutating) =>
        LET g == enlarge_hashtable_if_needed(State)
        IN  /\ g.hash_map_capacity_ = RESIZE_FACTOR * hash_map_capacity_
            /\ hash_map_capacity_' = g.hash_map_capacity_
            /\ KeysOf(g) = KeysOf(State)
            /\ Contents(g) = Contents(State)
            /\ size(g) = size(State)
            /\ Len(g.body_) = Len(body_)
            /\ ((op'.name = "erase" /\ ~op'.present)
                    \/ (op'.name = "insert" /\ op'.present))
                => /\ Contents(State') = Contents(State)
                   /\ KeysOf(State') = KeysOf(State)
                   /\ size(State') = size(State)]_vars

\* an insert of a present key rebuilt a table of two entries
C2_Witness ==
    /\ op.name = "insert"
    /\ op.present
    /\ op.grew
    /\ hash_map_size_ >= 2

\* C3: after erase(k), find(k) is end(); size() is one less when k was
\* present and the same when it was absent; every other key keeps its value.
C3_EraseCorrect ==
    [][op'.name = "erase" =>
        /\ find(State', op'.k) = END
        /\ size(State') = size(State) - (IF Present(State, op'.k) THEN 1 ELSE 0)
        /\ \A j \in Keys \ {op'.k} : Lookup(State', j) = Lookup(State, j)]_vars

\* an erase of a present key that left other entries
C3_Witness ==
    /\ op.name = "erase"
    /\ op.present
    /\ hash_map_size_ >= 2

\* C4: insert(k, v2) when k is present with v1 leaves the value of k at v1,
\* and leaves size() and every other key's value as they were, also when
\* size() equals the capacity.
C4_InsertPresentNoOp ==
    [][(op'.name = "insert" /\ Present(State, op'.k)) =>
        /\ Contents(State') = Contents(State)
        /\ size(State') = size(State)
        /\ Pairs(State') = Pairs(State)]_vars

\* an insert of a present key with another value, at size() = capacity
C4_Witness ==
    /\ op.name = "insert"
    /\ op.present
    /\ op.grew
    /\ at(State, op.k) # op.v

\* C5: index(k) = v leaves exactly one entry for k, with value v; on a
\* present key it leaves size() and the number of entries as they were, and
\* so does reading index(k).
C5_IndexOverwrite ==
    [][(op'.name \in {"index_write", "index_read"}) =>
        /\ Cardinality({i \in 1..Len(body_') : body_'[i].first = op'.k}) = 1
        /\ op'.name = "index_write" => at(State', op'.k) = op'.v
        /\ Present(State, op'.k) =>
              /\ size(State') = size(State)
              /\ Len(body_') = Len(body_)
              /\ op'.name = "index_read" => Pairs(State') = Pairs(State)]_vars

\* index(k) = v on a present key, in a map with other entries
C5_Witness ==
    /\ op.name = "index_write"
    /\ op.present
    /\ hash_map_size_ >= 2

\* C6: iteration from begin() to end() yields exactly the live entries,
\* each once: no key twice, no erased key, no live key missing.
C6_IterationComplete ==
    /\ \A i, j \in 1..Len(Iterate(State)) :
          i # j => Iterate(State)[i][1] # Iterate(State)[j][1]
    /\ Pairs(State) = LivePairs
    /\ Pairs(State) = {<<k, at(State, k)>> : k \in {j \in Keys : Present(State, j)}}

\* after an erase in a rebuilt table that leaves two entries
C6_Witness ==
    /\ op.name = "erase"
    /\ op.present
    /\ Len(Iterate(State)) >= 2
    /\ hash_map_capacity_ >= 4

\* C7: size() = 0 iff empty() iff iteration yields nothing; hash_map_size_
\* is the number of entries of body_.
C7_SizeConsistent ==
    /\ hash_map_size_ = Len(body_)
    /\ (size(State) = 0) <=> empty(State)
    /\ empty(State) <=> (Len(Iterate(State)) = 0)

\* after clear() of a map that had grown
C7_Witness ==
    /\ op.name = "clear"
    /\ hash_map_capacity_ >= 4
    /\ empty(State)

\* C8: at(k) throws exactly when k has no live entry and returns the value
\* of k otherwise; the call changes nothing and creates no entry for k.
C8_AtThrowsIffAbsent ==
    [][op'.name = "at" =>
        /\ (op'.ret = OutOfRange) <=> (live[op'.k] = Absent)
        /\ live[op'.k] # Absent => op'.ret = live[op'.k]
        /\ State' = State
        /\ find(State', op'.k) = find(State, op'.k)]_vars

\* at(k) threw on a map that holds other keys
C8_Witness ==
    /\ op.name = "at"
    /\ op.ret = OutOfRange
    /\ hash_map_size_ >= 1

\* C9: find(k) and at(k) change neither body_, iters_, sizes_, the capacity
\* nor size(), also when size() equals the capacity; find returns the
\* iterator of the entry of k when k is present and end() otherwise.
C9_ReadsDoNotMutate ==
    [][op'.name \in {"find", "at"} =>
        /\ State' = State
        /\ op'.name = "find" =>
              IF live[op'.k] = Absent THEN op'.ret = END
              ELSE /\ PosOf(body_, op'.ret) # 0
                   /\ body_[PosOf(body_, op'.ret)].first = op'.k
                   /\ body_[PosOf(body_, op'.ret)].second = live[op'.k]]_vars

\* find of a present key at size() = capacity
C9_Witness ==
    /\ op.name = "find"
    /\ op.ret # END
    /\ hash_map_size_ = hash_map_capacity_
    /\ hash_map_size_ >= 2

\* C10: erase(k) keeps every iterator that points at a live entry other
\* than the entry of k: it still points at the same entry afterwards.
C10_EraseKeepsOtherHandles ==
    [][(op'.name = "erase" /\ PosOf(body_, held) # 0
            /\ body_[PosOf(body_, held)].first # op'.k) =>
        /\ PosOf(body_', held') # 0
        /\ body_'[PosOf(body_', held')].first = body_[PosOf(body_, held)].first
        /\ body_'[PosOf(body_', held')].second = body_[PosOf(body_, held)].second]_vars

\* C14: clear() leaves body_ empty, size() 0, every bucket with count 0
\* and start end(), and the capacity as it was; every key is then absent
\* and an insert behaves as on an empty map of that capacity.
C14_ClearResetsBuckets ==
    [][op'.name = "clear" =>
        /\ body_' = <<>>
        /\ hash_map_size_' = 0
        /\ hash_map_capacity_' = hash_map_capacity_
        /\ DOMAIN sizes_' = 0..(hash_map_capacity_ - 1)
        /\ DOMAIN iters_' = 0..(hash_map_capacity_ - 1)
        /\ \A i \in 0..(hash_map_capacity_ - 1) :
              sizes_'[i] = 0 /\ iters_'[i] = END
        /\ \A k \in Keys :
              /\ find(State', k) = END
              /\ \A v \in Values :
                    Pairs(insert(State', k, v)) = {<<k, v>>}]_vars

\* clear() of a map of three entries in two buckets
C14_Witness ==
    /\ op.name = "clear"
    /\ op.before >= 3
    /\ hash_map_capacity_ >= 4

\* C16: for every bucket i the sizes_[i] consecutive entries of body_ from
\* iters_[i] on are exactly the entries whose hash(key) % capacity is i, so
\* each bucket is one contiguous run inside body_; and a bucket of count 0
\* has start end().
C16_BucketIndexInvariant ==
    \A i \in 0..(hash_map_capacity_ - 1) :
        LET p   == PosOf(body_, iters_[i])
            run == IF sizes_[i] = 0 THEN {} ELSE p..(p + sizes_[i] - 1)
        IN  /\ sizes_[i] >= 0
            /\ sizes_[i] = 0 => iters_[i] = END
            /\ sizes_[i] > 0 => (p >= 1 /\ p + sizes_[i] - 1 <= Len(body_))
            /\ {j \in 1..Len(body_) :
                    SizeTMod(hash(body_[j].first), hash_map_capacity_) = i} = run

\* an insertion left a run of two entries and another non-empty bucket
C16_Witness ==
    /\ op.name \in {"insert", "index_write"}
    /\ ~op.present
    /\ \E i, j \in 0..(hash_map_capacity_ - 1) :
          i # j /\ sizes_[i] >= 2 /\ sizes_[j] >= 1

C18_EraseAbsentNoOp ==
    [][(op'.name = "erase" /\ ~Present(State, op'.k)) => State' = State]_vars

\* the keys in the order iteration yields them
IterationKeys == [i \in 1..Len(body_) |-> body_[i].first]

\* C11: iteration visits the live entries in the order in which their keys
\* were first inserted: of two live keys the one inserted first comes first.
C11_InsertionOrder == IterationKeys = order

\* keys with k placed as a new entry for capacity cap: before the first key
\* of its bucket, or last when no key shares its bucket
PlaceKey(keys, k, cap) ==
    LET same == {i \in 1..Len(keys) :
                    SizeTMod(hash(keys[i]), cap) = SizeTMod(hash(k), cap)}
    IN  IF same = {} THEN Append(keys, k)
        ELSE LET p == CHOOSE i \in same : \A j \in same : i <= j
             IN  SubSeq(keys, 1, p - 1) \o <<k>> \o SubSeq(keys, p, Len(keys))

RECURSIVE PlaceAll(_, _, _, _)
PlaceAll(keys, old, i, cap) ==
    IF i > Len(old) THEN keys
    ELSE PlaceAll(PlaceKey(keys, old[i], cap), old, i + 1, cap)

\* C11 as amended: iteration order is the order of creation only up to
\* bucket placement.  A call that finds size() >= capacity first re-places
\* all keys, in their iteration order, into an empty order for the doubled
\* capacity; then a new key goes before the first key of its bucket, or
\* last when its bucket is empty; an erased key leaves; all other keys
\* keep their relative order.
C11_PlacementOrder ==
    [][op'.name \in Mutating =>
        LET full == hash_map_size_ >= hash_map_capacity_
            cap  == IF full THEN 2 * hash_map_capacity_ ELSE hash_map_capacity_
            base == IF full THEN PlaceAll(<<>>, IterationKeys, 1, cap)
                    ELSE IterationKeys
        IN  IterationKeys' =
                IF op'.name = "erase"
                THEN SelectSeq(base, LAMBDA j : j # op'.k)
                ELSE IF \E i \in 1..Len(base) : base[i] = op'.k THEN base
                ELSE PlaceKey(base, op'.k, cap)]_vars

\* a third key was inserted by a call that rebuilt, and iteration is not in
\* the order of creation
C11_Witness ==
    /\ op.name = "insert"
    /\ ~op.present
    /\ op.grew
    /\ Len(body_) >= 3
    /\ order # Untracked
    /\ IterationKeys # order

\* the positions of input that hold key k
InputPositions(k) == {i \in 1..Len(input) : input[i][1] = k}
LastPosition(k) == CHOOSE i \in InputPositions(k) : \A j \in InputPositions(k) : j <= i

\* C13: a map constructed from a range or a list of pairs holds, for every
\* key of the input, exactly one entry, whose value is that of the last
\* pair with the key; it holds no other key, and size() is the number of
\* distinct keys of the input.
C13_ConstructLastWins ==
    op.name \in {"construct_range", "construct_list"} =>
        /\ \A k \in Keys :
              IF InputPositions(k) = {} THEN at(State, k) = OutOfRange
              ELSE /\ Cardinality({i \in 1..Len(body_) : body_[i].first = k}) = 1
                   /\ at(State, k) = input[LastPosition(k)][2]
        /\ size(State) = Cardinality({input[i][1] : i \in 1..Len(input)})
        /\ Len(body_) = size(State)

\* constructed from three pairs of which two have the same key and
\* different values
C13_Witness ==
    /\ op.name = "construct_list"
    /\ Len(input) = 3
    /\ \E i, j \in 1..Len(input) :
          i < j /\ input[i][1] = input[j][1] /\ input[i][2] # input[j][2]
    /\ size(State) = 2

\* C12: after HashMap b(a) or b = a, b holds the keys and values of a and a
\* is as it was; a later index, insert, erase or clear on b leaves the keys
\* and values of a as they were, and one on a leaves those of b
CopyMutating == {"copy_insert", "copy_index_write", "copy_erase", "copy_clear"}

C12_CopyIndependent ==
    [][/\ op'.name \in {"copy_construct", "copy_assign"} =>
            /\ Contents(copy') = Contents(State)
            /\ KeysOf(copy') = KeysOf(State)
            /\ size(copy') = size(State)
            /\ State' = State
       /\ op'.name \in CopyMutating =>
            /\ Contents(State') = Contents(State)
            /\ Pairs(State') = Pairs(State)
       /\ (copy # NoCopy /\ op'.name \in Mutating \cup {"clear"}) =>
            /\ Contents(copy') = Contents(copy)
            /\ Pairs(copy') = Pairs(copy)]_vars

\* b was changed after the copy, and a still holds what b has lost
C12_Witness ==
    /\ copy # NoCopy
    /\ op.name = "copy_erase"
    /\ op.present
    /\ Present(State, op.k)
    /\ ~Present(copy, op.k)
    /\ size(State) >= 2

\* C15: a = a leaves a as it was; b = a gives b the keys and values of a
\* and nothing else, whatever b held and whatever its capacity was
C15_Assignment ==
    [][/\ op'.name = "self_assign" => State' = State
       /\ op'.name = "assign" =>
            \A a \in {FromList(op'.other)} :
                /\ Contents(State') = Contents(a)
                /\ Pairs(State') = Pairs(a)
                /\ size(State') = size(a)
                /\ Len(body_') = size(a)]_vars

\* an assignment that replaced three entries by one other entry
C15_Witness ==
    /\ op.name = "assign"
    /\ op.before = 3
    /\ Len(op.other) = 1
    /\ size(State) = 1
    /\ hash_map_capacity_ = 4

\* C20: size() <= capacity, the capacity is a power of two, and no call
\* makes it smaller
RECURSIVE PowerOfTwo(_)
PowerOfTwo(n) == n = 1 \/ (n > 1 /\ n % 2 = 0 /\ PowerOfTwo(n \div 2))

CapacityOK(m) ==
    /\ size(m) <= m.hash_map_capacity_
    /\ PowerOfTwo(m.hash_map_capacity_)

C20_CapacityMonotone ==
    [][/\ CapacityOK(State) /\ CapacityOK(State')
       /\ hash_map_capacity_' >= hash_map_capacity_
       /\ copy' # NoCopy => CapacityOK(copy')
       /\ (copy # NoCopy /\ copy' # NoCopy) =>
            copy'.hash_map_capacity_ >= copy.hash_map_capacity_]_vars

\* a clear that left a capacity of 4, then an assignment of the empty
\* object to a copy of capacity 2
C20_Witness ==
    /\ op.name = "copy_assign"
    /\ hash_map_capacity_ = 4
    /\ size(State) = 0
    /\ copy.hash_map_capacity_ >= 2
    /\ size(copy) = 0
    /\ op.before >= 1

\* C19: in the variant of fixed HASH_MAP_SIZE, after clear() every bucket
\* has count 0 and start end(), whatever the hashes of the entries were
C19_FixedClearResetsAll ==
    op.name = "fixed_clear" =>
        \A b \in FixedBuckets : fixed.sizes[b] = 0 /\ fixed.iters[b] = END

====
